---- MODULE Spec2Model ----
(***************************************************************************)
(* E2BSessionManager (src/src/lib/e2b/session-manager.ts): the process-    *)
(* wide cache of one remote sandbox per chat session, its expiry policy,   *)
(* executeCode, terminateSandbox, the cleanup sweep and getCacheStats.     *)
(*                                                                         *)
(* The manager runs on a single-threaded event loop: the code between two  *)
(* awaits runs atomically, so every action below is one such synchronous   *)
(* stretch, from a call (or the resumption after an await) to the next     *)
(* await or to the return.  The provider calls (Sandbox.create, runCode,   *)
(* kill) are the awaits: each has a "call" half at the end of one action   *)
(* and a "return" half at the start of another, and any other action may   *)
(* run in between.  An await of a promise that is already settled (the     *)
(* return of an async function into its caller) is folded into the action  *)
(* that settles it: nothing that touches the cache can run in that gap     *)
(* but the synchronous start of another call, which commutes with it.      *)
(* Time is read from one clock, `now`, which the Tick action advances in   *)
(* steps of TimeUnit; a synchronous stretch reads one value of it.         *)
(*                                                                         *)
(* The chat route's POST handler (src/src/app/api/chat/route.ts) is        *)
(* modelled as far as its rate limiting goes: the request's classification,*)
(* the access and rate-limit checks, the start of streaming and the        *)
(* increment, one request after another.                                   *)
(***************************************************************************)
EXTENDS Integers, Sequences, FiniteSets, TLC

\* ------------------------------------------------------------------ bounds
\* Last clock value the model reaches, in TimeUnit steps.
MaxTime == 3
\* Number of sandboxes the provider hands out before it only refuses.
MaxSandboxes == 3
\* Largest executionCount an entry reaches (reuse is not started beyond it).
MaxExecutionCount == 4

\* Longest conversation a chat request carries.
MaxMessages == 3
\* Most calls the rate-limit service receives of each kind.
MaxRateLimitCalls == 2

\* Longest list of results an execution carries.
MaxResults == 3
\* Most lines an execution writes to stdout, and to stderr.
MaxLines == 2

\* ------------------------------------------------------------- the domain
\* Caller-supplied chat session ids.
Sessions == {"a", "b"}
\* Concurrent executeCode activations (a finished one may be started again).
ExecCalls == {"e1", "e2"}
\* Concurrent explicit terminateSandbox activations.
TermCalls == {"t1"}

\* One clock step, in milliseconds: the model's clock counts these.
TimeUnit == 30 * 60 * 1000
SESSION_IDLE_TIMEOUT == (30 * 60 * 1000) \div TimeUnit
SESSION_MAX_LIFETIME == (60 * 60 * 1000) \div TimeUnit

\* A sandbox handle is the identity the provider gave it; 0 is "no sandbox".
NoSandbox == 0
SandboxIds == 1..MaxSandboxes

\* An optional value: null, or one value.
NULL == << >>
Some(v) == << v >>

\* ---------------------------------------------------------------- texts
\* A text is a sequence of characters; "\n" is the line break.
NL == "\n"
Whitespace == {" ", NL}

RECURSIVE Join(_, _)
\* Array.prototype.join: the elements with sep between neighbours.
Join(parts, sep) ==
    IF Len(parts) = 0 THEN << >>
    ELSE IF Len(parts) = 1 THEN parts[1]
    ELSE parts[1] \o sep \o Join(Tail(parts), sep)

RECURSIVE TrimStart(_)
TrimStart(t) ==
    IF Len(t) > 0 /\ Head(t) \in Whitespace THEN TrimStart(Tail(t)) ELSE t

RECURSIVE TrimEnd(_)
TrimEnd(t) ==
    IF Len(t) > 0 /\ t[Len(t)] \in Whitespace
    THEN TrimEnd(SubSeq(t, 1, Len(t) - 1))
    ELSE t

\* String.prototype.trim.
Trim(t) == TrimEnd(TrimStart(t))

\* ------------------------------------------------- the Map sandboxCache
\* A JavaScript Map keeps its keys in insertion order; the cache is the
\* sequence of its entries in that order, each entry carrying its key.
\* (sandboxId is sandbox.sandboxId, the handle's identity: field `sandbox`.)
CacheIndex(cache, k) ==
    LET hits == {i \in 1..Len(cache) : cache[i].key = k}
    IN  IF hits = {} THEN 0 ELSE CHOOSE i \in hits : \A j \in hits : i <= j

CacheHas(cache, k) == CacheIndex(cache, k) # 0

CacheGet(cache, k) == cache[CacheIndex(cache, k)]

\* (A set that never replaces: the entry is always added.)
CacheSet_Append(cache, k, e) == Append(cache, e)

\* Map.set: an existing key keeps its position, a new key goes last.
CacheSet(cache, k, e) ==
    IF CacheHas(cache, k)
    THEN [cache EXCEPT ![CacheIndex(cache, k)] = e]
    ELSE Append(cache, e)

\* (A delete that empties the Map, as Map.clear does.)
CacheDelete_Clear(cache, k) == << >>

\* Map.delete: removes the key's entry, if any.
CacheDelete(cache, k) ==
    SelectSeq(cache, LAMBDA e : e.key # k)

\* ------------------------------------------------------- Expiry Policy
\* (isSessionValid without its max-lifetime check.)
isSessionValid_NoLifetime(entry, t) ==
    t - entry.lastUsedAt <= SESSION_IDLE_TIMEOUT

\* (isSessionValid with >= for its two comparisons.)
isSessionValid_Inclusive(entry, t) ==
    /\ ~(t - entry.lastUsedAt >= SESSION_IDLE_TIMEOUT)
    /\ ~(t - entry.createdAt >= SESSION_MAX_LIFETIME)

\* isSessionValid(entry), with Date.now() = t.
isSessionValid(entry, t) ==
    LET idleTime == t - entry.lastUsedAt
        lifetime == t - entry.createdAt
    IN  IF idleTime > SESSION_IDLE_TIMEOUT THEN FALSE
        ELSE IF lifetime > SESSION_MAX_LIFETIME THEN FALSE
        ELSE TRUE

VARIABLES
    now,           \* the clock (Date.now()), in TimeUnit steps
    sandboxCache,  \* the Map, as the sequence of its entries
    nextSandbox,   \* provider: identity of the next sandbox it creates
    killCalls,     \* provider: number of kill() invocations per sandbox
    exec,          \* per executeCode activation: its position and locals
    term,          \* per terminateSandbox activation: position and locals
    sweep,         \* the cleanup job's activation: position and locals
    stats,         \* the result a caller of getCacheStats holds, if any
    cleanupInterval, \* whether the cleanup timer is set (the handle is not null)
    request,       \* the chat route's POST activation, if one is under way
    rateLimit      \* rate-limit service: the calls it has received, by kind

\* The chat route's state.
chatVars == << request, rateLimit >>

vars ==
    << now, sandboxCache, nextSandbox, killCalls, exec, term, sweep, stats,
       cleanupInterval, request, rateLimit >>

\* --------------------------------------------------- provider outcomes
\* What a failing provider call throws: an Error with a message, or a value
\* that is no Error.
ErrorThrown == [isError |-> TRUE, message |-> << "quota" >>]
NonErrorThrown == [isError |-> FALSE, message |-> << >>]
Thrown == {ErrorThrown, NonErrorThrown}

\* What runCode resolves to: logs (lines of stdout and of stderr), results
\* (each with an optional png and jpeg payload, "" when absent) and an
\* optional interpreter error.
PlainExecution ==
    [logs |-> [stdout |-> << << "o" >> >>, stderr |-> << << "w" >> >>],
     results |-> << [png |-> "P", jpeg |-> ""] >>,
     error |-> NULL]
FailedExecution ==
    [logs |-> [stdout |-> << >>, stderr |-> << >>],
     results |-> << >>,
     error |-> Some([name |-> << "ValueError" >>, value |-> << "bad input" >>,
                     traceback |-> << "line 3" >>])]
Executions == {PlainExecution, FailedExecution}

\* The executions the formatting of a result is checked on: every list of
\* up to MaxResults results with a png payload, a jpeg payload, both or
\* neither; every interpreter error with each of its fields present or empty;
\* every stdout and stderr of up to MaxLines lines, empty lines included.
ResultKinds ==
    {[png |-> "P", jpeg |-> ""], [png |-> "", jpeg |-> "J"],
     [png |-> "Q", jpeg |-> "K"], [png |-> "", jpeg |-> ""]}
ResultLists == UNION {[1..n -> ResultKinds] : n \in 0..MaxResults}
InterpreterErrors ==
    [name : {<< >>, << "ValueError" >>}, value : {<< >>, << "bad input" >>},
     traceback : {<< >>, << "line 3" >>}]
LogLines == {<< "o" >>, << "w" >>, << >>}
LogLists == UNION {[1..n -> LogLines] : n \in 0..MaxLines}
FormatExecutions ==
    {[logs |-> [stdout |-> << >>, stderr |-> << >>], results |-> rs,
      error |-> NULL] : rs \in ResultLists}
    \cup {[logs |-> [stdout |-> << >>, stderr |-> << >>], results |-> << >>,
           error |-> Some(err)] : err \in InterpreterErrors}
    \cup {[logs |-> [stdout |-> out, stderr |-> err], results |-> << >>,
           error |-> NULL] : out \in LogLists, err \in LogLists}

\* ------------------------------------------------------------ Executor
\* error instanceof Error ? error.message : fallback
MessageOf(e, fallback) == IF e.isError THEN e.message ELSE fallback

\* (A formatError that joins the three fields whether present or not.)
formatError_KeepsEmpty(error) ==
    Join(<< error.name, error.value, error.traceback >>, << NL >>)

formatError(error) ==
    LET p1 == IF error.name # << >> THEN << error.name >> ELSE << >>
        p2 == IF error.value # << >> THEN << error.value >> ELSE << >>
        p3 == IF error.traceback # << >> THEN << error.traceback >> ELSE << >>
    IN  Join(p1 \o p2 \o p3, << NL >>)

RECURSIVE ExtractImages_JpegFirst(_)
\* (An extraction that asks for the jpeg payload first.)
ExtractImages_JpegFirst(results) ==
    IF Len(results) = 0 THEN << >>
    ELSE LET r == Head(results)
             img == IF r.jpeg # "" THEN << [format |-> "jpeg", base64 |-> r.jpeg] >>
                    ELSE IF r.png # "" THEN << [format |-> "png", base64 |-> r.png] >>
                    ELSE << >>
         IN  img \o ExtractImages_JpegFirst(Tail(results))

RECURSIVE ExtractImages(_)
ExtractImages(results) ==
    IF Len(results) = 0 THEN << >>
    ELSE LET r == Head(results)
             img == IF r.png # "" THEN << [format |-> "png", base64 |-> r.png] >>
                    ELSE IF r.jpeg # "" THEN << [format |-> "jpeg", base64 |-> r.jpeg] >>
                    ELSE << >>
         IN  img \o ExtractImages(Tail(results))

\* (A result that leaves the interpreter's error out.)
CompletedResult_DropsError(execution, startTime, t) ==
    [stdout |-> Trim(Join(execution.logs.stdout, << NL >>)
                       \o Join(execution.logs.stderr, << NL >>)),
     images |-> ExtractImages(execution.results),
     error |-> NULL,
     executionTimeMs |-> t - startTime]

\* The result executeCode returns when runCode resolved to `execution`.
CompletedResult(execution, startTime, t) ==
    LET stdout == Join(execution.logs.stdout, << NL >>)
                    \o Join(execution.logs.stderr, << NL >>)
    IN  [stdout |-> Trim(stdout),
         images |-> ExtractImages(execution.results),
         error |-> IF execution.error # NULL
                   THEN Some(formatError(execution.error[1]))
                   ELSE NULL,
         executionTimeMs |-> t - startTime]

\* (A catch block that reports no error.)
CaughtResult_NullError(e, startTime, t) ==
    [stdout |-> << >>, images |-> << >>, error |-> NULL,
     executionTimeMs |-> t - startTime]

\* The result executeCode's catch block builds for the thrown value e.
CaughtResult(e, startTime, t) ==
    [stdout |-> << >>,
     images |-> << >>,
     error |-> Some(MessageOf(e, << "Unknown execution error" >>)),
     executionTimeMs |-> t - startTime]

\* How an activation of executeCode ends: it returns r, or it raises e.
Returned(r) == [result |-> Some(r), raised |-> NULL]
Raised(e) == [result |-> NULL, raised |-> Some(e)]

\* executeCode's try block ran to its return statement.
OnCompleted(execution, startTime, t) ==
    Returned(CompletedResult(execution, startTime, t))

\* (An executeCode without its catch block.)
OnThrow_Rethrow(e, startTime, t) == Raised(e)

\* A value thrown inside executeCode's try block: the catch block returns.
OnThrow(e, startTime, t) == Returned(CaughtResult(e, startTime, t))

\* (A getOrCreateSandbox that rethrows the provider's value as it is.)
CreateError_Unwrapped(e) == e

\* What getOrCreateSandbox's catch block throws for the provider's e.
CreateError(e) ==
    [isError |-> TRUE,
     message |-> << "Failed to create E2B sandbox: " >>
                   \o MessageOf(e, << "Unknown error" >>)]

\* ------------------------------------------------------------- state
NoSession == ""

IdleExec ==
    [pc |-> "idle", sid |-> NoSession, startTime |-> 0, sandbox |-> NoSandbox,
     result |-> NULL, raised |-> NULL]

\* An activation that ended with `outcome`: only the outcome is kept.
Done(outcome) ==
    [IdleExec EXCEPT !.pc = "done", !.result = outcome.result,
                     !.raised = outcome.raised]

IdleTerm ==
    [pc |-> "idle", sid |-> NoSession, sandbox |-> NoSandbox, raised |-> FALSE]

\* What a sweep read when it iterated the Map: the session id and sandbox of
\* every entry it found expired, and the entries it found valid.
NoSnapshot == [expired |-> << >>, kept |-> << >>]

\* expiredSessions is the part of the array the loop has yet to reach;
\* failed counts the kills that rejected during this sweep (each is logged).
IdleSweep ==
    [pc |-> "idle", expiredSessions |-> << >>, sid |-> NoSession,
     sandbox |-> NoSandbox, snapshot |-> NoSnapshot, failed |-> 0]

Init ==
    /\ now = 0
    /\ sandboxCache = << >>
    /\ nextSandbox = 1
    /\ killCalls = [sb \in SandboxIds |-> 0]
    /\ exec = [p \in ExecCalls |-> IdleExec]
    /\ term = [t \in TermCalls |-> IdleTerm]
    /\ sweep = IdleSweep
    /\ stats = NULL
    /\ cleanupInterval = TRUE
    /\ request = NULL
    /\ rateLimit = [checkUser |-> 0, checkAnonymous |-> 0, increment |-> 0]

\* The clock advances.
Tick ==
    /\ now < MaxTime
    /\ now' = now + 1
    /\ UNCHANGED << sandboxCache, nextSandbox, killCalls, exec, term, sweep, stats, cleanupInterval >>
    /\ UNCHANGED chatVars

\* (A reuse that forgets executionCount++.)
Reused_NoCount(entry, t) == [entry EXCEPT !.lastUsedAt = t]

\* (A reuse that counts executionCount down.)
Reused_CountDown(entry, t) ==
    [entry EXCEPT !.lastUsedAt = t, !.executionCount = entry.executionCount - 1]

\* The entry getOrCreateSandbox's reuse branch leaves in the cache.
Reused(entry, t) ==
    [entry EXCEPT !.lastUsedAt = t, !.executionCount = entry.executionCount + 1]

\* (An entry whose lastUsedAt is left at the epoch.)
NewEntry_EpochLastUsed(k, sb, t) ==
    [key |-> k, sandbox |-> sb, createdAt |-> t, lastUsedAt |-> 0,
     executionCount |-> 1]

\* The entry getOrCreateSandbox builds around a newly created sandbox.
NewEntry(k, sb, t) ==
    [key |-> k, sandbox |-> sb, createdAt |-> t, lastUsedAt |-> t,
     executionCount |-> 1]

\* (A getOrCreateSandbox that reuses whatever entry it finds.)
TakesReuse_AnyEntry(cache, k, t) == CacheHas(cache, k)

\* Whether getOrCreateSandbox(k) takes its reuse branch.
TakesReuse(cache, k, t) ==
    CacheHas(cache, k) /\ isSessionValid(CacheGet(cache, k), t)

\* executeCode(s, code) is called: startTime is read and getOrCreateSandbox
\* runs up to its return (reuse: executeCode then invokes runCode on the
\* sandbox) or up to its await of Sandbox.create.
ExecStart(p, s) ==
    /\ exec[p].pc = "idle"
    /\ IF TakesReuse(sandboxCache, s, now)
       THEN LET cached == CacheGet(sandboxCache, s)
            IN  /\ cached.executionCount < MaxExecutionCount
                /\ sandboxCache' = CacheSet(sandboxCache, s, Reused(cached, now))
                /\ exec' = [exec EXCEPT ![p] =
                      [IdleExec EXCEPT !.pc = "running", !.sid = s,
                          !.startTime = now, !.sandbox = cached.sandbox]]
       ELSE /\ sandboxCache' = sandboxCache
            /\ exec' = [exec EXCEPT ![p] =
                  [IdleExec EXCEPT !.pc = "creating", !.sid = s,
                      !.startTime = now]]
    /\ UNCHANGED << now, nextSandbox, killCalls, term, sweep, stats, cleanupInterval >>
    /\ UNCHANGED chatVars

\* Sandbox.create resolves: the entry is built and set, getOrCreateSandbox
\* returns the sandbox and executeCode invokes runCode on it.
CreateOk(p) ==
    /\ exec[p].pc = "creating"
    /\ nextSandbox <= MaxSandboxes
    /\ sandboxCache' = CacheSet(sandboxCache, exec[p].sid,
                                NewEntry(exec[p].sid, nextSandbox, now))
    /\ nextSandbox' = nextSandbox + 1
    /\ exec' = [exec EXCEPT ![p].pc = "running", ![p].sandbox = nextSandbox]
    /\ UNCHANGED << now, killCalls, term, sweep, stats, cleanupInterval >>
    /\ UNCHANGED chatVars

\* (A getOrCreateSandbox that sets its entry before Sandbox.create settles and
\* leaves it, without a sandbox, when the creation fails.)
CreateFail_PartialEntry(p, e) ==
    /\ exec[p].pc = "creating"
    /\ sandboxCache' = CacheSet(sandboxCache, exec[p].sid,
                                NewEntry(exec[p].sid, NoSandbox, now))
    /\ exec' = [exec EXCEPT ![p] =
                   Done(OnThrow(CreateError(e), exec[p].startTime, now))]
    /\ UNCHANGED << now, nextSandbox, killCalls, term, sweep, stats, cleanupInterval >>
    /\ UNCHANGED chatVars

\* Sandbox.create rejects with e: getOrCreateSandbox rethrows, executeCode's
\* catch block builds the result.
CreateFail(p, e) ==
    /\ exec[p].pc = "creating"
    /\ exec' = [exec EXCEPT ![p] =
                   Done(OnThrow(CreateError(e), exec[p].startTime, now))]
    /\ UNCHANGED << now, sandboxCache, nextSandbox, killCalls, term, sweep, stats, cleanupInterval >>
    /\ UNCHANGED chatVars

\* runCode resolves to an execution: executeCode builds the result and
\* returns it (the activation keeps only the result).
RunCodeOk(p, x) ==
    /\ exec[p].pc = "running"
    /\ exec' = [exec EXCEPT ![p] =
                   Done(OnCompleted(x, exec[p].startTime, now))]
    /\ UNCHANGED << now, sandboxCache, nextSandbox, killCalls, term, sweep, stats, cleanupInterval >>
    /\ UNCHANGED chatVars

\* (An executeCode that drops the session's entry when runCode throws.)
RunCodeFail_DropsEntry(p, e) ==
    /\ exec[p].pc = "running"
    /\ sandboxCache' = CacheDelete(sandboxCache, exec[p].sid)
    /\ exec' = [exec EXCEPT ![p] =
                   Done(OnThrow(e, exec[p].startTime, now))]
    /\ UNCHANGED << now, nextSandbox, killCalls, term, sweep, stats, cleanupInterval >>
    /\ UNCHANGED chatVars

\* runCode rejects with e (timeout, sandbox gone, network).
RunCodeFail(p, e) ==
    /\ exec[p].pc = "running"
    /\ exec' = [exec EXCEPT ![p] =
                   Done(OnThrow(e, exec[p].startTime, now))]
    /\ UNCHANGED << now, sandboxCache, nextSandbox, killCalls, term, sweep, stats, cleanupInterval >>
    /\ UNCHANGED chatVars

\* The caller has taken its result; the activation is over.
ExecReturn(p) ==
    /\ exec[p].pc = "done"
    /\ exec' = [exec EXCEPT ![p] = IdleExec]
    /\ UNCHANGED << now, sandboxCache, nextSandbox, killCalls, term, sweep, stats, cleanupInterval >>
    /\ UNCHANGED chatVars

\* ------------------------------------------------- Explicit Termination
\* terminateSandbox(s) is called: without an entry it returns, with one it
\* invokes kill on the entry's sandbox and awaits it.
TerminateStart(t, s) ==
    /\ term[t].pc = "idle"
    /\ IF ~CacheHas(sandboxCache, s)
       THEN /\ term' = [term EXCEPT ![t] = [IdleTerm EXCEPT !.pc = "done", !.sid = s]]
            /\ killCalls' = killCalls
       ELSE LET sb == CacheGet(sandboxCache, s).sandbox
            IN  /\ term' = [term EXCEPT ![t] =
                       [IdleTerm EXCEPT !.pc = "killing", !.sid = s,
                                        !.sandbox = sb]]
                /\ killCalls' = [killCalls EXCEPT ![sb] = @ + 1]
    /\ UNCHANGED << now, sandboxCache, nextSandbox, exec, sweep, stats, cleanupInterval >>
    /\ UNCHANGED chatVars

\* (A terminateSandbox whose catch block does not delete.)
AfterKill_OnlyOnSuccess(cache, k, ok) ==
    IF ok THEN CacheDelete(cache, k) ELSE cache

\* The cache once kill has settled: the try block deletes the key after a
\* kill that resolved (ok), the catch block after one that rejected.
AfterKill(cache, k, ok) ==
    IF ok THEN CacheDelete(cache, k) ELSE CacheDelete(cache, k)

\* (A terminateSandbox whose catch block rethrows.)
TerminateRaises_Rethrow(ok) == ~ok

\* Whether terminateSandbox raises once kill has settled: the try block ends
\* normally, the catch block logs and swallows the rejection.
TerminateRaises(ok) == IF ok THEN FALSE ELSE FALSE

\* kill resolves (ok) or rejects (~ok): both branches delete the key and
\* terminateSandbox returns.
KillReturn(t, ok) ==
    /\ term[t].pc = "killing"
    /\ sandboxCache' = AfterKill(sandboxCache, term[t].sid, ok)
    /\ term' = [term EXCEPT ![t].pc = "done",
                            ![t].raised = TerminateRaises(ok)]
    /\ UNCHANGED << now, nextSandbox, killCalls, exec, sweep, stats, cleanupInterval >>
    /\ UNCHANGED chatVars

TerminateReturn(t) ==
    /\ term[t].pc = "done"
    /\ term' = [term EXCEPT ![t] = IdleTerm]
    /\ UNCHANGED << now, sandboxCache, nextSandbox, killCalls, exec, sweep, stats, cleanupInterval >>
    /\ UNCHANGED chatVars

\* ---------------------------------------------------- Cleanup Scheduler
\* (A collection that takes every key, whatever the policy says.)
ExpiredSessions_All(cache, t) == [i \in 1..Len(cache) |-> cache[i].key]

\* (A collection that looks at the max lifetime only.)
ExpiredSessions_OverLifetime(cache, t) ==
    LET expired == SelectSeq(cache, LAMBDA e : t - e.createdAt > SESSION_MAX_LIFETIME)
    IN  [i \in 1..Len(expired) |-> expired[i].key]

\* The keys whose entries the policy rejects, in the Map's order.
ExpiredSessions(cache, t) ==
    LET expired == SelectSeq(cache, LAMBDA e : ~isSessionValid(e, t))
    IN  [i \in 1..Len(expired) |-> expired[i].key]

RECURSIVE SkipAbsent(_, _)
\* The loop over expiredSessions from `ids` on: terminateSandbox returns at
\* once for a key without an entry; the rest starts at the first key with one.
SkipAbsent(cache, ids) ==
    IF Len(ids) = 0 THEN ids
    ELSE IF CacheHas(cache, Head(ids)) THEN ids
    ELSE SkipAbsent(cache, Tail(ids))

\* The sweep's position once its loop has reached `ids` with the cache as
\* given: awaiting the kill of the first key that has an entry, or finished.
SweepAt(cache, ids) ==
    LET rest == SkipAbsent(cache, ids)
    IN  IF Len(rest) = 0 THEN IdleSweep
        ELSE [IdleSweep EXCEPT !.pc = "killing", !.expiredSessions = Tail(rest),
                  !.sid = Head(rest),
                  !.sandbox = CacheGet(cache, Head(rest)).sandbox]

\* The kill invocations after the sweep moves to position s.
KillAt(s) ==
    IF s.pc = "killing" THEN [killCalls EXCEPT ![s.sandbox] = @ + 1]
    ELSE killCalls

\* What the sweep's first loop reads of the cache, with Date.now() = t.
Snapshot(cache, t) ==
    LET expired == SelectSeq(cache, LAMBDA e : ~isSessionValid(e, t))
    IN  [expired |-> [i \in 1..Len(expired) |->
                         [key |-> expired[i].key, sandbox |-> expired[i].sandbox]],
         kept |-> SelectSeq(cache, LAMBDA e : isSessionValid(e, t))]

\* The sweep at position s, with what it has read and logged so far (a sweep
\* that has finished keeps nothing).
Continuing(s, snapshot, failed) ==
    IF s.pc = "killing" THEN [s EXCEPT !.snapshot = snapshot, !.failed = failed]
    ELSE s

\* The timer fires (it does while it is set): cleanupExpiredSessions
\* collects the expired keys and calls terminateSandbox for the first.
SweepStart ==
    /\ cleanupInterval
    /\ sweep.pc = "idle"
    /\ LET s == Continuing(SweepAt(sandboxCache, ExpiredSessions(sandboxCache, now)),
                           Snapshot(sandboxCache, now), 0)
       IN  /\ sweep' = s
           /\ killCalls' = KillAt(s)
    /\ UNCHANGED << now, sandboxCache, nextSandbox, exec, term, stats, cleanupInterval >>
    /\ UNCHANGED chatVars

\* The sweep's kill resolves or rejects: terminateSandbox deletes the key and
\* returns, and the loop goes on to the next key (a terminateSandbox that
\* raised would end cleanupExpiredSessions there).
SweepKillReturn(ok) ==
    /\ sweep.pc = "killing"
    /\ LET cache == AfterKill(sandboxCache, sweep.sid, ok)
           s == IF TerminateRaises(ok) THEN IdleSweep
                ELSE Continuing(SweepAt(cache, sweep.expiredSessions),
                                sweep.snapshot,
                                IF ok THEN sweep.failed ELSE sweep.failed + 1)
       IN  /\ sandboxCache' = cache
           /\ sweep' = s
           /\ killCalls' = KillAt(s)
    /\ UNCHANGED << now, nextSandbox, exec, term, stats, cleanupInterval >>
    /\ UNCHANGED chatVars

\* stopCleanupJob(): the timer is cleared; a sweep under way goes on.
stopCleanupJob ==
    /\ cleanupInterval' = FALSE
    /\ UNCHANGED << now, sandboxCache, nextSandbox, killCalls, exec, term, sweep, stats >>
    /\ UNCHANGED chatVars

\* ---------------------------------------------------------- Observability
RECURSIVE CountStats(_, _, _)
\* getCacheStats's loop over sandboxCache.values(), from `entries` on, with
\* the counters as they stand in acc.
CountStats(entries, t, acc) ==
    IF Len(entries) = 0 THEN acc
    ELSE LET entry == Head(entries)
         IN  CountStats(Tail(entries), t,
                 [totalExecutions |-> acc.totalExecutions + entry.executionCount,
                  activeSessions |-> IF isSessionValid(entry, t)
                                     THEN acc.activeSessions + 1
                                     ELSE acc.activeSessions])

\* (A getCacheStats that counts the executions of the valid entries only.)
getCacheStats_ValidOnly(cache, t) ==
    LET valid == SelectSeq(cache, LAMBDA e : isSessionValid(e, t))
        counted == CountStats(valid, t, [totalExecutions |-> 0, activeSessions |-> 0])
    IN  [totalSessions |-> Len(cache),
         activeSessions |-> counted.activeSessions,
         totalExecutions |-> counted.totalExecutions]

\* What getCacheStats() returns, with Date.now() = t.
getCacheStats(cache, t) ==
    LET counted == CountStats(cache, t, [totalExecutions |-> 0, activeSessions |-> 0])
    IN  [totalSessions |-> Len(cache),
         activeSessions |-> counted.activeSessions,
         totalExecutions |-> counted.totalExecutions]

\* (A getCacheStats that drops the entries it finds expired.)
StatsCall_Prunes ==
    /\ stats = NULL
    /\ stats' = Some(getCacheStats(sandboxCache, now))
    /\ sandboxCache' = SelectSeq(sandboxCache, LAMBDA e : isSessionValid(e, now))
    /\ UNCHANGED << now, nextSandbox, killCalls, exec, term, sweep, cleanupInterval >>
    /\ UNCHANGED chatVars

\* getCacheStats() is called and returns (it is synchronous): the caller
\* holds the result.
StatsCall ==
    /\ stats = NULL
    /\ stats' = Some(getCacheStats(sandboxCache, now))
    /\ UNCHANGED << now, sandboxCache, nextSandbox, killCalls, exec, term, sweep, cleanupInterval >>
    /\ UNCHANGED chatVars

\* The caller has used the result.
StatsReturn ==
    /\ stats # NULL
    /\ stats' = NULL
    /\ UNCHANGED << now, sandboxCache, nextSandbox, killCalls, exec, term, sweep, cleanupInterval >>
    /\ UNCHANGED chatVars

\* ------------------------------------------------------------ Chat route
\* (src/src/app/api/chat/route.ts.)  The roles a message has, and the
\* conversations a request carries.
Roles == {"user", "assistant"}
Conversations == UNION {[1..n -> Roles] : n \in 0..MaxMessages}
Users == {"u"}

\* lastMessage?.role === 'user'
isUserMessage(messages) ==
    Len(messages) > 0 /\ messages[Len(messages)] = "user"

\* messages.filter(m => m.role === 'user').length
userMessageCount(messages) ==
    Cardinality({i \in 1..Len(messages) : messages[i] = "user"})

\* (A rule that counts every request whose last message is a user message.)
isUserInitiated_EveryUserMessage(messages) == isUserMessage(messages)

isUserInitiated(messages) ==
    isUserMessage(messages) /\ userMessageCount(messages) = 1

\* The POST activation as a request arrives.  messages holds the roles of
\* the request's messages; user is the authenticated user's id, or null;
\* allowed is the rate-limit check's answer, when one was asked for;
\* streaming tells whether streamText has been called; status is the
\* response's, 0 while there is none.
NewRequest(messages, dev, user) ==
    [pc |-> "validate", messages |-> messages, isDevelopment |-> dev,
     user |-> user, allowed |-> NULL, streaming |-> FALSE, status |-> 0]

\* The activation under way is at position pc.
RequestAt(pc) == request # NULL /\ request[1].pc = pc

\* The response the handler returns: the activation ends with its status.
Responded(r, status) == [r EXCEPT !.pc = "done", !.status = status]

\* A request arrives: the body is parsed, the app mode read and the
\* authenticated user fetched.
ReceiveRequest(messages, dev, user) ==
    /\ request = NULL
    /\ rateLimit.checkUser < MaxRateLimitCalls
    /\ rateLimit.checkAnonymous < MaxRateLimitCalls
    /\ rateLimit.increment < MaxRateLimitCalls
    /\ request' = Some(NewRequest(messages, dev, user))
    /\ UNCHANGED << now, sandboxCache, nextSandbox, killCalls, exec, term, sweep, stats, cleanupInterval >>
    /\ UNCHANGED rateLimit

\* Access validation, for an authenticated user outside development mode:
\* validateAccess answers, and the handler responds 402 when there is no
\* access and a payment setup is required.
AccessValidated(hasAccess, requiresPaymentSetup) ==
    /\ RequestAt("validate")
    /\ LET r == request[1]
       IN  request' =
              IF /\ r.user # NULL
                 /\ ~r.isDevelopment
                 /\ ~hasAccess
                 /\ requiresPaymentSetup
              THEN Some(Responded(r, 402))
              ELSE Some([r EXCEPT !.pc = "check"])
    /\ UNCHANGED << now, sandboxCache, nextSandbox, killCalls, exec, term, sweep, stats, cleanupInterval >>
    /\ UNCHANGED rateLimit

\* The rate-limit check, for a user-initiated message outside development
\* mode: checkAnonymousRateLimit without a user, checkUserRateLimit with
\* one; the handler responds 429 when the answer is not allowed.
RateLimitChecked(allowed) ==
    /\ RequestAt("check")
    /\ LET r == request[1]
       IN  IF isUserInitiated(r.messages) /\ ~r.isDevelopment
           THEN /\ rateLimit' =
                      IF r.user = NULL
                      THEN [rateLimit EXCEPT !.checkAnonymous = @ + 1]
                      ELSE [rateLimit EXCEPT !.checkUser = @ + 1]
                /\ request' =
                      IF allowed
                      THEN Some([r EXCEPT !.pc = "prepare",
                                          !.allowed = Some(allowed)])
                      ELSE Some(Responded([r EXCEPT !.allowed = Some(allowed)],
                                          429))
           ELSE /\ rateLimit' = rateLimit
                /\ request' = Some([r EXCEPT !.pc = "prepare"])
    /\ UNCHANGED << now, sandboxCache, nextSandbox, killCalls, exec, term, sweep, stats, cleanupInterval >>

\* The model is selected, the user message saved and streamText called.
StreamStarted ==
    /\ RequestAt("prepare")
    /\ request' = Some([request[1] EXCEPT !.pc = "increment", !.streaming = TRUE])
    /\ UNCHANGED << now, sandboxCache, nextSandbox, killCalls, exec, term, sweep, stats, cleanupInterval >>
    /\ UNCHANGED rateLimit

\* Something throws before streamText is reached: the handler's catch block
\* responds 400 for a tool or thinking compatibility error, 500 otherwise.
RequestFailed(compatibility) ==
    /\ request # NULL
    /\ request[1].pc \in {"validate", "check", "prepare"}
    /\ request' = Some(Responded(request[1], IF compatibility THEN 400 ELSE 500))
    /\ UNCHANGED << now, sandboxCache, nextSandbox, killCalls, exec, term, sweep, stats, cleanupInterval >>
    /\ UNCHANGED rateLimit

\* After streamText: for a user-initiated message outside development mode
\* incrementRateLimit is called for an authenticated user (a rejection is
\* logged and swallowed); the stream response is returned.
RateLimitIncremented ==
    /\ RequestAt("increment")
    /\ LET r == request[1]
       IN  /\ rateLimit' =
                 IF /\ isUserInitiated(r.messages)
                    /\ ~r.isDevelopment
                    /\ r.user # NULL
                 THEN [rateLimit EXCEPT !.increment = @ + 1]
                 ELSE rateLimit
           /\ request' = Some(Responded(r, 200))
    /\ UNCHANGED << now, sandboxCache, nextSandbox, killCalls, exec, term, sweep, stats, cleanupInterval >>

\* The response has been sent; the handler is ready for the next request.
RequestEnd ==
    /\ RequestAt("done")
    /\ request' = NULL
    /\ UNCHANGED << now, sandboxCache, nextSandbox, killCalls, exec, term, sweep, stats, cleanupInterval >>
    /\ UNCHANGED rateLimit

\* The chat route handling one request after another.
NextChat ==
    \/ \E messages \in Conversations, dev \in BOOLEAN, user \in {NULL} \cup {Some(u) : u \in Users} :
          ReceiveRequest(messages, dev, user)
    \/ \E hasAccess \in BOOLEAN, requiresPaymentSetup \in BOOLEAN :
          AccessValidated(hasAccess, requiresPaymentSetup)
    \/ \E allowed \in BOOLEAN : RateLimitChecked(allowed)
    \/ StreamStarted
    \/ \E compatibility \in BOOLEAN : RequestFailed(compatibility)
    \/ RateLimitIncremented
    \/ RequestEnd

SpecChat == Init /\ [][NextChat]_vars

\* Callers E of executeCode over the session ids S, the provider failing
\* with TH and executing with EX.
ExecNext(E, S, TH, EX) ==
    \/ \E p \in E, s \in S : ExecStart(p, s)
    \/ \E p \in E : CreateOk(p)
    \/ \E p \in E, e \in TH : CreateFail(p, e)
    \/ \E p \in E, x \in EX : RunCodeOk(p, x)
    \/ \E p \in E, e \in TH : RunCodeFail(p, e)
    \/ \E p \in E : ExecReturn(p)

\* Callers T of terminateSandbox over the session ids S.
TermNext(T, S) ==
    \/ \E t \in T, s \in S : TerminateStart(t, s)
    \/ \E t \in T, ok \in BOOLEAN : KillReturn(t, ok)
    \/ \E t \in T : TerminateReturn(t)

\* The cleanup job.
SweepNext ==
    \/ SweepStart
    \/ \E ok \in BOOLEAN : SweepKillReturn(ok)

\* Two overlapping callers of executeCode on one session id, a caller of
\* terminateSandbox and the cleanup job; the provider fails with an Error
\* and executes without an interpreter error.
Next ==
    \/ Tick
    \/ ExecNext(ExecCalls, {"a"}, {ErrorThrown}, {PlainExecution})
    \/ TermNext(TermCalls, {"a"})
    \/ SweepNext

Spec == Init /\ [][Next]_vars

\* One caller of executeCode at a time over both session ids and the
\* cleanup job (no explicit termination).
NextSessions ==
    \/ Tick
    \/ ExecNext({"e1"}, Sessions, {ErrorThrown}, {PlainExecution})
    \/ SweepNext

SpecSessions == Init /\ [][NextSessions]_vars

\* One caller of executeCode on one session id with every provider outcome,
\* a caller of terminateSandbox and the cleanup job.
NextExecutor ==
    \/ Tick
    \/ ExecNext({"e1"}, {"a"}, Thrown, Executions)
    \/ TermNext(TermCalls, {"a"})
    \/ SweepNext

SpecExecutor == Init /\ [][NextExecutor]_vars

\* One caller of executeCode on one session id, runCode resolving to every
\* execution of FormatExecutions.
NextFormat ==
    \/ ExecNext({"e1"}, {"a"}, {ErrorThrown}, FormatExecutions)

SpecFormat == Init /\ [][NextFormat]_vars

\* One caller of executeCode at a time over both session ids and the
\* cleanup job, no step of executeCode falling between the start of a sweep
\* and its end.
NextQuietSweep ==
    \/ Tick
    \/ \E s \in Sessions : sweep.pc = "idle" /\ ExecStart("e1", s)
    \/ sweep.pc = "idle" /\ CreateOk("e1")
    \/ sweep.pc = "idle" /\ CreateFail("e1", ErrorThrown)
    \/ sweep.pc = "idle" /\ RunCodeOk("e1", PlainExecution)
    \/ sweep.pc = "idle" /\ RunCodeFail("e1", ErrorThrown)
    \/ sweep.pc = "idle" /\ ExecReturn("e1")
    \/ SweepNext

SpecQuietSweep == Init /\ [][NextQuietSweep]_vars

\* One caller of executeCode at a time, on session id "a" at any time and
\* on "b" before the clock has moved, with a provider that creates and
\* executes without failing; the cleanup job and a caller of
\* stopCleanupJob.  The timer keeps firing while it is set (setInterval),
\* and every kill the sweep awaits settles, resolved or rejected.
NextCleanup ==
    \/ Tick
    \/ \E s \in Sessions : (s = "b" => now = 0) /\ ExecStart("e1", s)
    \/ CreateOk("e1")
    \/ RunCodeOk("e1", PlainExecution)
    \/ ExecReturn("e1")
    \/ SweepNext
    \/ stopCleanupJob

SpecCleanup ==
    /\ Init
    /\ [][NextCleanup]_vars
    /\ WF_vars(SweepStart)
    /\ WF_vars(\E ok \in BOOLEAN : SweepKillReturn(ok))

\* One caller of executeCode at a time and a caller of terminateSandbox,
\* both over both session ids (the cleanup job does not run).
NextIsolation ==
    \/ Tick
    \/ ExecNext({"e1"}, Sessions, {ErrorThrown}, {PlainExecution})
    \/ TermNext(TermCalls, Sessions)

SpecIsolation == Init /\ [][NextIsolation]_vars

\* Two overlapping callers of executeCode on one session id and the cleanup
\* job (no explicit termination).
NextCallers ==
    \/ Tick
    \/ ExecNext(ExecCalls, {"a"}, {ErrorThrown}, {PlainExecution})
    \/ SweepNext

SpecCallers == Init /\ [][NextCallers]_vars

\* A caller of getCacheStats.
StatsNext ==
    \/ StatsCall
    \/ StatsReturn

\* One caller of executeCode at a time over both session ids and a caller
\* of getCacheStats; the cleanup job does not run, so that an expired entry
\* stays until its session id is used again.
NextStats ==
    \/ Tick
    \/ ExecNext({"e1"}, Sessions, {ErrorThrown}, {PlainExecution})
    \/ StatsNext

SpecStats == Init /\ [][NextStats]_vars

\* ====================================================================
\* Properties
\* ====================================================================
\* The sandboxes the cache's entries hold.
CachedSandboxes(cache) == {cache[i].sandbox : i \in 1..Len(cache)}

\* An activation of executeCode holds a resolved sandbox: getOrCreateSandbox
\* has returned and runCode has not completed.
InFlightOn(p, sb) == exec[p].pc = "running" /\ exec[p].sandbox = sb

\* The step is p's call of executeCode (for the session id exec'[p].sid).
Starts(p) == exec[p].pc = "idle" /\ exec'[p].pc # "idle"

\* The step is the successful return of p's Sandbox.create.
Creates(p) == exec[p].pc = "creating" /\ exec'[p].pc = "running"

\* C1: single-flight creation.  Executions of one session id that overlap
\* while none has a valid entry cause one provider creation: there are never
\* two Sandbox.create calls in flight for the same session id.
C1_SingleFlight ==
    \A p, q \in ExecCalls :
        (p # q /\ exec[p].pc = "creating" /\ exec[q].pc = "creating")
            => exec[p].sid # exec[q].sid

\* C2: the cleanup sweep never has a kill in flight on a sandbox that an
\* execution resolved and is still using (stated for the executions that
\* resolved it no longer ago than the idle timeout: the schedule needs no
\* runCode that outlasts the timeout).
C2_NoEvictionInUse ==
    \A p \in ExecCalls :
        (InFlightOn(p, sweep.sandbox)
            /\ now - exec[p].startTime <= SESSION_IDLE_TIMEOUT)
        => sweep.pc # "killing"

\* C3: getOrCreateSandbox never returns a sandbox on which a kill started by
\* the sweep is in flight.
C3_NoHandleUnderTeardown ==
    [][\A p \in ExecCalls :
          (exec[p].pc # "running" /\ exec'[p].pc = "running")
              => ~(sweep.pc = "killing" /\ sweep.sandbox = exec'[p].sandbox)]_vars

\* C4: kill is invoked at most once on every sandbox.
C4_ReleasedOnce == \A sb \in SandboxIds : killCalls[sb] <= 1

\* C5: when a sandbox stops being held by the cache (its entry deleted or
\* overwritten), kill has been invoked on it.
C5_RemovedIsReleased ==
    [][\A sb \in CachedSandboxes(sandboxCache) \ CachedSandboxes(sandboxCache') :
          killCalls'[sb] >= 1]_vars

\* C6: an execution that starts more than the idle timeout after the
\* previous use of its session's entry, with no other execution in flight,
\* gets a sandbox of a new identity, and when that sandbox replaces the old
\* entry kill has been invoked on the old sandbox.
C6_IdleEvictionReleasesOld ==
    [][\A p \in ExecCalls :
          LET s == exec[p].sid
              old == CacheGet(sandboxCache, s)
          IN  ( /\ Creates(p)
                /\ \A q \in ExecCalls \ {p} : exec[q].pc \in {"idle", "done"}
                /\ CacheHas(sandboxCache, s)
                /\ exec[p].startTime - old.lastUsedAt > SESSION_IDLE_TIMEOUT )
              => /\ exec'[p].sandbox # old.sandbox
                 /\ CacheGet(sandboxCache', s).sandbox = exec'[p].sandbox
                 /\ killCalls'[old.sandbox] >= 1]_vars

\* C7: an execution that finds its session's entry older than the max
\* lifetime never reuses it, however recently the entry was used: the call
\* leaves the entry untouched and asks the provider for a sandbox, and the
\* sandbox the provider creates is a new one that replaces the entry.
C7_LifetimeEviction ==
    [][\A p \in ExecCalls :
          LET s == exec'[p].sid
          IN  /\ ( /\ Starts(p)
                   /\ CacheHas(sandboxCache, s)
                   /\ now - CacheGet(sandboxCache, s).createdAt > SESSION_MAX_LIFETIME )
                 => /\ exec'[p].pc = "creating"
                    /\ sandboxCache' = sandboxCache
              /\ ( /\ Creates(p)
                   /\ CacheHas(sandboxCache, s)
                   /\ now - CacheGet(sandboxCache, s).createdAt > SESSION_MAX_LIFETIME )
                 => /\ exec'[p].sandbox \notin CachedSandboxes(sandboxCache)
                    /\ \A sb \in SandboxIds :
                          killCalls[sb] > 0 => sb # exec'[p].sandbox
                    /\ CacheGet(sandboxCache', s).sandbox = exec'[p].sandbox
                    /\ CacheGet(sandboxCache', s).createdAt = now]_vars

\* C7's case: an execution has gone to the provider at this instant although
\* its session's entry was used within the idle timeout, the entry being older
\* than the max lifetime.
C7_Witness ==
    \E p \in ExecCalls :
        /\ exec[p].pc = "creating"
        /\ exec[p].startTime = now
        /\ CacheHas(sandboxCache, exec[p].sid)
        /\ LET e == CacheGet(sandboxCache, exec[p].sid)
           IN  /\ now - e.createdAt > SESSION_MAX_LIFETIME
               /\ now - e.lastUsedAt <= SESSION_IDLE_TIMEOUT
               /\ e.executionCount >= 3

\* C8: an execution that finds a valid entry for its session id runs on that
\* entry's sandbox, no sandbox is created, and the entry's lastUsedAt becomes
\* the current time and its executionCount one more; nothing else changes.
C8_Reuse ==
    [][\A p \in ExecCalls :
          LET s == exec'[p].sid
              e == CacheGet(sandboxCache, s)
          IN  ( /\ Starts(p)
                /\ CacheHas(sandboxCache, s)
                /\ now - e.lastUsedAt <= SESSION_IDLE_TIMEOUT
                /\ now - e.createdAt <= SESSION_MAX_LIFETIME )
              => /\ exec'[p].pc = "running"
                 /\ exec'[p].sandbox = e.sandbox
                 /\ nextSandbox' = nextSandbox
                 /\ Len(sandboxCache') = Len(sandboxCache)
                 /\ CacheGet(sandboxCache', s) =
                       [key |-> s, sandbox |-> e.sandbox, createdAt |-> e.createdAt,
                        lastUsedAt |-> now,
                        executionCount |-> e.executionCount + 1]]_vars

\* C8's case: an execution runs on the sandbox of an entry created earlier,
\* which it has just reused.
C8_Witness ==
    \E p \in ExecCalls :
        /\ exec[p].pc = "running"
        /\ exec[p].startTime = now
        /\ CacheHas(sandboxCache, exec[p].sid)
        /\ LET e == CacheGet(sandboxCache, exec[p].sid)
           IN  /\ e.sandbox = exec[p].sandbox
               /\ e.createdAt < now
               /\ e.lastUsedAt = now
               /\ e.executionCount = 2

\* C9: when Sandbox.create succeeds, the cache afterwards holds exactly one
\* entry for the session id, around the sandbox just created (one no entry
\* held before), with executionCount 1 and createdAt and lastUsedAt the
\* current time; the other entries are as before and the execution runs on
\* the new sandbox.
C9_FreshEntry ==
    [][\A p \in ExecCalls :
          LET s == exec[p].sid
          IN  Creates(p)
              => /\ exec'[p].sandbox \notin CachedSandboxes(sandboxCache)
                 /\ nextSandbox' > exec'[p].sandbox
                 /\ exec'[p].sandbox >= nextSandbox
                 /\ Cardinality({i \in 1..Len(sandboxCache') :
                                    sandboxCache'[i].key = s}) = 1
                 /\ CacheGet(sandboxCache', s) =
                       [key |-> s, sandbox |-> exec'[p].sandbox, createdAt |-> now,
                        lastUsedAt |-> now, executionCount |-> 1]
                 /\ SelectSeq(sandboxCache', LAMBDA e : e.key # s)
                       = SelectSeq(sandboxCache, LAMBDA e : e.key # s)]_vars

\* C9's case: a second sandbox has replaced the entry of a first one that was
\* never killed (so never deleted): the stale entry was overwritten.
C9_Witness ==
    \E p \in ExecCalls :
        /\ exec[p].pc = "running"
        /\ exec[p].startTime > SESSION_IDLE_TIMEOUT
        /\ exec[p].sandbox = 2
        /\ \A sb \in SandboxIds : killCalls[sb] = 0
        /\ \A q \in ExecCalls \ {p} : exec[q].pc = "idle"
        /\ sandboxCache = << NewEntry(exec[p].sid, 2, now) >>

\* A well-formed ExecutionResult: stdout a text, images a sequence of png or
\* jpeg payloads, error null or a text, executionTimeMs a duration.
WellFormedResult(r) ==
    /\ DOMAIN r = {"stdout", "images", "error", "executionTimeMs"}
    /\ r.stdout \in Seq(STRING)
    /\ \A i \in 1..Len(r.images) :
          /\ DOMAIN r.images[i] = {"format", "base64"}
          /\ r.images[i].format \in {"png", "jpeg"}
          /\ r.images[i].base64 \in STRING
    /\ r.error = NULL \/ (Len(r.error) = 1 /\ r.error[1] \in Seq(STRING))
    /\ r.executionTimeMs \in 0..now

\* C10: executeCode never raises: every activation that has ended returned a
\* well-formed ExecutionResult, whatever the provider did.
C10_NeverRaises ==
    \A p \in ExecCalls :
        exec[p].pc = "done"
            => /\ exec[p].raised = NULL
               /\ exec[p].result # NULL
               /\ WellFormedResult(exec[p].result[1])

\* C10's case: an execution whose sandbox creation failed after the clock
\* moved has returned a result carrying the failure.
C10_Witness ==
    \E p \in ExecCalls :
        /\ exec[p].pc = "done"
        /\ exec[p].result # NULL
        /\ exec[p].result[1].error =
              Some(<< "Failed to create E2B sandbox: ", "Unknown error" >>)
        /\ exec[p].result[1].executionTimeMs > 0

\* The step is the failure of p's Sandbox.create: executeCode ends.
CreateFails(p) == exec[p].pc = "creating" /\ exec'[p].pc = "done"

\* C11: a provider failure to create a sandbox leaves the store as it was:
\* neither the call's start, which finds no valid entry and goes to the
\* provider, nor the failure's handling inserts an entry or changes a field
\* of one.
C11_CreateFailureKeepsStore ==
    [][\A p \in ExecCalls :
          /\ (Starts(p) /\ exec'[p].pc = "creating")
                => sandboxCache' = sandboxCache
          /\ CreateFails(p) => sandboxCache' = sandboxCache]_vars

\* C11's case: the only caller's creation has failed while the store holds
\* its session's expired entry, which no kill has touched: the entry of an
\* earlier call is still there, as that call left it.
C11_Witness ==
    /\ exec["e1"].pc = "done"
    /\ exec["e1"].result # NULL
    /\ exec["e1"].result[1].error =
          Some(<< "Failed to create E2B sandbox: ", "quota" >>)
    /\ \A sb \in SandboxIds : killCalls[sb] = 0
    /\ Len(sandboxCache) = 1
    /\ sandboxCache[1] = NewEntry("a", 1, 0)
    /\ ~isSessionValid(sandboxCache[1], now)

\* C12: when Sandbox.create fails, executeCode returns a result with empty
\* stdout, no images and a non-empty error that names the creation failure
\* and carries the provider's message, and runCode is not invoked: the
\* activation holds no sandbox and ends without having been running.
C12_CreateFailureResult ==
    [][\A p \in ExecCalls :
          CreateFails(p)
              => /\ exec[p].sandbox = NoSandbox
                 /\ exec'[p].raised = NULL
                 /\ exec'[p].result # NULL
                 /\ LET r == exec'[p].result[1]
                    IN  /\ r.stdout = << >>
                        /\ r.images = << >>
                        /\ r.error # NULL
                        /\ Len(r.error[1]) > 1
                        /\ Head(r.error[1]) = "Failed to create E2B sandbox: "
                        /\ Tail(r.error[1]) \in {<< "quota" >>, << "Unknown error" >>}
                        /\ r.executionTimeMs = now - exec[p].startTime]_vars

\* C12's case: the first call ever has returned the creation failure at
\* once, and the provider has created nothing.
C12_Witness ==
    \E p \in ExecCalls :
        /\ exec[p].pc = "done"
        /\ exec[p].result =
              Some([stdout |-> << >>, images |-> << >>,
                    error |-> Some(<< "Failed to create E2B sandbox: ", "quota" >>),
                    executionTimeMs |-> 0])
        /\ nextSandbox = 1
        /\ sandboxCache = << >>

\* The step is t's call of terminateSandbox (for the id term'[t].sid).
TerminateStarts(t) == term[t].pc = "idle" /\ term'[t].pc # "idle"

\* The step is the settling of the kill t awaited: terminateSandbox ends.
KillSettles(t) == term[t].pc = "killing" /\ term'[t].pc # "killing"

\* C13: terminateSandbox is idempotent and never raises.  Called for a session
\* id without an entry it returns at once, invokes no kill and leaves the
\* store as it is.  When the kill it awaited settles, resolved or rejected,
\* it returns without raising and its session id has no entry: a second
\* call that follows at once is the call without an entry.
C13_TerminateIdempotent ==
    [][\A t \in TermCalls :
          /\ (TerminateStarts(t) /\ ~CacheHas(sandboxCache, term'[t].sid))
                => /\ term'[t].pc = "done"
                   /\ ~term'[t].raised
                   /\ killCalls' = killCalls
                   /\ sandboxCache' = sandboxCache
          /\ KillSettles(t)
                => /\ term'[t].pc = "done"
                   /\ ~term'[t].raised
                   /\ ~CacheHas(sandboxCache', term[t].sid)]_vars

\* C13's case: before the clock has moved (nothing can have expired, so the
\* sweep has killed nothing) a sandbox was created and killed once, its
\* entry is gone, and a terminateSandbox that found no entry has returned.
C13_Witness ==
    \E t \in TermCalls :
        /\ now = 0
        /\ term[t].pc = "done"
        /\ term[t].sid = "a"
        /\ term[t].sandbox = NoSandbox
        /\ ~term[t].raised
        /\ nextSandbox > 1
        /\ killCalls[1] = 1
        /\ sandboxCache = << >>

\* C14: when a terminateSandbox that found an entry completes, the store
\* holds no entry for its session id, whether kill resolved or rejected;
\* the same for the terminateSandbox calls the sweep makes.
C14_TerminateRemovesEntry ==
    [][/\ \A t \in TermCalls :
             KillSettles(t)
                 => \A i \in 1..Len(sandboxCache') :
                        sandboxCache'[i].key # term[t].sid
       /\ (sweep.pc = "killing" /\ sweep' # sweep)
             => \A i \in 1..Len(sandboxCache') :
                    sandboxCache'[i].key # sweep.sid]_vars

\* C14's case: a terminateSandbox that killed the first sandbox has
\* completed while an execution is still running on that sandbox, and the
\* store no longer holds the entry.
C14_Witness ==
    \E t \in TermCalls, p \in ExecCalls :
        /\ term[t].pc = "done"
        /\ term[t].sid = "a"
        /\ term[t].sandbox = 1
        /\ killCalls[1] = 1
        /\ exec[p].pc = "running"
        /\ exec[p].sandbox = 1
        /\ ~CacheHas(sandboxCache, "a")

\* C15: with no eviction and no terminate, getCacheStats reports as
\* totalExecutions the number N of completed executeCode calls.  Stated for
\* the states where no call is in flight, no kill was ever invoked and the
\* clock has not passed the idle timeout (so nothing has expired): every
\* sandbox the provider created was created by a call of its own, which has
\* completed, so N is at least the number of sandboxes created.
C15_StatsCountExecutions ==
    ( /\ \A p \in ExecCalls : exec[p].pc \in {"idle", "done"}
      /\ \A sb \in SandboxIds : killCalls[sb] = 0
      /\ now <= SESSION_IDLE_TIMEOUT )
    => getCacheStats(sandboxCache, now).totalExecutions >= nextSandbox - 1

RECURSIVE SumExecutionCount(_, _)
\* The sum of executionCount over the entries at the positions I.
SumExecutionCount(cache, I) ==
    IF I = {} THEN 0
    ELSE LET i == CHOOSE j \in I : TRUE
         IN  cache[i].executionCount + SumExecutionCount(cache, I \ {i})

\* The step is a call of getCacheStats.
StatsCalled == stats = NULL /\ stats' # NULL

\* C16: getCacheStats returns totalSessions = the number of entries,
\* activeSessions = the number of entries the expiry policy accepts at the
\* time of the call, and totalExecutions = the sum of executionCount over
\* all entries, the expired ones included.
C16_StatsDefinitions ==
    [][StatsCalled
          => LET all == 1..Len(sandboxCache)
                 accepted == {i \in all :
                                /\ now - sandboxCache[i].lastUsedAt <= SESSION_IDLE_TIMEOUT
                                /\ now - sandboxCache[i].createdAt <= SESSION_MAX_LIFETIME}
             IN  stats' = Some([totalSessions |-> Cardinality(all),
                                activeSessions |-> Cardinality(accepted),
                                totalExecutions |->
                                    SumExecutionCount(sandboxCache, all)])]_vars

\* C16's case: the store holds an expired entry used once and a valid entry
\* used twice, and the caller of getCacheStats holds two sessions, one of
\* them active, and three executions.
C16_Witness ==
    /\ stats = Some([totalSessions |-> 2, activeSessions |-> 1,
                     totalExecutions |-> 3])
    /\ Len(sandboxCache) = 2
    /\ \E i, j \in 1..Len(sandboxCache) :
          /\ ~isSessionValid(sandboxCache[i], now)
          /\ sandboxCache[i].executionCount = 1
          /\ isSessionValid(sandboxCache[j], now)
          /\ sandboxCache[j].executionCount = 2

\* C17: getCacheStats and the expiry check only read.  A call of
\* getCacheStats (which checks every entry) leaves the store as it is and
\* neither creates nor kills a sandbox; so does the call of executeCode
\* whose expiry check rejects the entry it found.
C17_ReadOnly ==
    [][/\ StatsCalled
             => /\ sandboxCache' = sandboxCache
                /\ nextSandbox' = nextSandbox
                /\ killCalls' = killCalls
       /\ \A p \in ExecCalls :
             LET s == exec'[p].sid
             IN  ( /\ Starts(p)
                   /\ CacheHas(sandboxCache, s)
                   /\ ~isSessionValid(CacheGet(sandboxCache, s), now) )
                 => /\ sandboxCache' = sandboxCache
                    /\ nextSandbox' = nextSandbox
                    /\ killCalls' = killCalls]_vars

\* C17's case: getCacheStats has counted an expired entry as a session that
\* is not active, and the entry is still in the store as it was created.
C17_Witness ==
    /\ stats = Some([totalSessions |-> 1, activeSessions |-> 0,
                     totalExecutions |-> 1])
    /\ now > SESSION_IDLE_TIMEOUT
    /\ sandboxCache = << NewEntry("a", 1, 0) >>
    /\ \A sb \in SandboxIds : killCalls[sb] = 0

\* C18: the store holds at most one entry per session id.
C18_OneEntryPerSession ==
    \A i, j \in 1..Len(sandboxCache) :
        sandboxCache[i].key = sandboxCache[j].key => i = j

\* C18's case: two executions of one session id run on two sandboxes, both
\* created at this instant, and the store holds the single entry of the
\* second.
C18_Witness ==
    /\ \A p \in ExecCalls : exec[p].pc = "running" /\ exec[p].sid = "a"
    /\ {exec[p].sandbox : p \in ExecCalls} = {1, 2}
    /\ sandboxCache = << NewEntry("a", 2, now) >>

\* C19: every entry's lastUsedAt is at or after its createdAt.
C19_LastUsedNotBeforeCreated ==
    \A i \in 1..Len(sandboxCache) :
        sandboxCache[i].lastUsedAt >= sandboxCache[i].createdAt

\* C19's case: an entry created after the clock had moved and reused when
\* its age was the whole max lifetime.
C19_Witness ==
    \E i \in 1..Len(sandboxCache) :
        /\ sandboxCache[i].createdAt > 0
        /\ sandboxCache[i].lastUsedAt =
              sandboxCache[i].createdAt + SESSION_MAX_LIFETIME

\* C20: every entry's executionCount is at least 1, and from one state to the
\* next it does not decrease as long as the entry (its session id around
\* the same sandbox) stays in the store.
C20_ExecutionCountMonotone ==
    [][/\ \A i \in 1..Len(sandboxCache) : sandboxCache[i].executionCount >= 1
       /\ \A j \in 1..Len(sandboxCache') : sandboxCache'[j].executionCount >= 1
       /\ \A i \in 1..Len(sandboxCache), j \in 1..Len(sandboxCache') :
             ( /\ sandboxCache[i].key = sandboxCache'[j].key
               /\ sandboxCache[i].sandbox = sandboxCache'[j].sandbox )
             => sandboxCache'[j].executionCount
                   >= sandboxCache[i].executionCount]_vars

\* C20's case: an entry has been reused until its count stands three above
\* the count it was created with.
C20_Witness ==
    \E i \in 1..Len(sandboxCache) :
        /\ sandboxCache[i].executionCount = NewEntry("a", 1, 0).executionCount + 3
        /\ sandboxCache[i].lastUsedAt > sandboxCache[i].createdAt

\* An entry idle for more than 30 minutes or older than 60 minutes at the
\* clock value t (the clock counts TimeUnit milliseconds a step).
PastLimits(entry, t) ==
    \/ (t - entry.lastUsedAt) * TimeUnit > 30 * 60 * 1000
    \/ (t - entry.createdAt) * TimeUnit > 60 * 60 * 1000

\* C21: the expiry policy rejects an entry exactly when it has been idle for
\* more than 30 minutes or is older than 60 minutes, and accepts it at the
\* two limits.  Every executeCode call that finds an entry goes to the
\* provider exactly when the entry is past a limit, and otherwise reuses it;
\* every sweep that finds an expired entry collects exactly the session ids
\* of the entries past a limit.
C21_ExpiryBoundaries ==
    [][/\ \A p \in ExecCalls :
             LET s == exec'[p].sid
             IN  (Starts(p) /\ CacheHas(sandboxCache, s))
                 => /\ exec'[p].pc = "creating"
                          <=> PastLimits(CacheGet(sandboxCache, s), now)
                    /\ exec'[p].pc = "running"
                          <=> ~PastLimits(CacheGet(sandboxCache, s), now)
       /\ (sweep.pc = "idle" /\ sweep'.pc = "killing")
             => LET past == SelectSeq(sandboxCache, LAMBDA e : PastLimits(e, now))
                IN  << sweep'.sid >> \o sweep'.expiredSessions
                       = [i \in 1..Len(past) |-> past[i].key]]_vars

\* C21's case: an execution has just reused an entry that had been idle for
\* the whole idle timeout and was as old as the max lifetime.
C21_Witness ==
    \E p \in ExecCalls :
        /\ exec[p].pc = "running"
        /\ exec[p].startTime = now
        /\ CacheHas(sandboxCache, exec[p].sid)
        /\ LET e == CacheGet(sandboxCache, exec[p].sid)
           IN  /\ e.sandbox = exec[p].sandbox
               /\ e.createdAt = now - SESSION_MAX_LIFETIME
               /\ e.lastUsedAt = now
               /\ e.executionCount = 3

\* The step is the settling of the kill the sweep awaited.
SweepKillSettles == sweep.pc = "killing" /\ sweep' # sweep

\* C22: a kill that fails does not end the sweep.  When the kill the sweep
\* awaited settles, resolved or rejected, the session id's entry is removed
\* and the sweep goes on: it invokes kill for the next collected session id
\* that has an entry, and it finishes only when none is left.
C22_SweepIsolatesFailures ==
    [][SweepKillSettles
          => LET left == SelectSeq(sweep.expiredSessions,
                                   LAMBDA k : CacheHas(sandboxCache', k))
             IN  /\ ~CacheHas(sandboxCache', sweep.sid)
                 /\ IF Len(left) = 0
                    THEN sweep'.pc = "idle"
                    ELSE /\ sweep'.pc = "killing"
                         /\ sweep'.sid = Head(left)
                         /\ sweep'.expiredSessions = Tail(left)
                         /\ sweep'.sandbox =
                               CacheGet(sandboxCache', Head(left)).sandbox
                         /\ killCalls'[sweep'.sandbox] =
                               killCalls[sweep'.sandbox] + 1]_vars

\* C22's case: the kill for the first of two expired sessions was rejected,
\* its entry is removed, and the sweep is killing the second's sandbox.
C22_Witness ==
    /\ sweep.pc = "killing"
    /\ sweep.failed = 1
    /\ Len(sweep.snapshot.expired) = 2
    /\ sweep.sid = sweep.snapshot.expired[2].key
    /\ sweep.sandbox = sweep.snapshot.expired[2].sandbox
    /\ ~CacheHas(sandboxCache, sweep.snapshot.expired[1].key)
    /\ killCalls[sweep.snapshot.expired[1].sandbox] = 1
    /\ killCalls[sweep.sandbox] = 1

\* The step is the settling of p's runCode: executeCode ends.
RunCodeSettles(p) == exec[p].pc = "running" /\ exec'[p].pc = "done"

\* C23: when an executeCode call's sandbox resolution succeeds, the step
\* that invokes runCode has left the session's entry around the resolved
\* sandbox with lastUsedAt the current time and executionCount 1 (creation)
\* or one more than before (reuse); the settling of runCode, by a result, an
\* interpreter error or a throw, leaves the store as it is.
C23_BookkeepingKept ==
    [][\A p \in ExecCalls :
          LET s == exec'[p].sid
              old == CacheGet(sandboxCache, s)
              new == CacheGet(sandboxCache', s)
          IN  /\ (Starts(p) /\ exec'[p].pc = "running")
                    => /\ CacheHas(sandboxCache', s)
                       /\ new.sandbox = exec'[p].sandbox
                       /\ new.lastUsedAt = now
                       /\ new.executionCount = old.executionCount + 1
              /\ Creates(p)
                    => /\ CacheHas(sandboxCache', s)
                       /\ new.sandbox = exec'[p].sandbox
                       /\ new.lastUsedAt = now
                       /\ new.executionCount = 1
              /\ RunCodeSettles(p) => sandboxCache' = sandboxCache]_vars

\* C23's case: the only caller's last call reused the entry (the count went
\* to 2), its runCode threw, and the entry still carries that use.
C23_Witness ==
    /\ exec["e1"].pc = "done"
    /\ exec["e1"].result # NULL
    /\ exec["e1"].result[1].error = Some(<< "quota" >>)
    /\ \A sb \in SandboxIds : killCalls[sb] = 0
    /\ Len(sandboxCache) = 1
    /\ sandboxCache[1].executionCount = 2
    /\ sandboxCache[1].lastUsedAt > sandboxCache[1].createdAt

\* C24: when runCode rejects (the provider's timeout, a lost sandbox, any
\* other failure of the call), executeCode does not raise: it returns a
\* result with empty stdout, no images and a non-null error, the rejection's
\* message or, for a value that is no Error, a fixed text.
C24_RunFailureIsResult ==
    [][\A p \in ExecCalls, e \in Thrown :
          RunCodeFail(p, e)
              => /\ exec'[p].pc = "done"
                 /\ exec'[p].raised = NULL
                 /\ exec'[p].result # NULL
                 /\ LET r == exec'[p].result[1]
                    IN  /\ r.stdout = << >>
                        /\ r.images = << >>
                        /\ r.error # NULL
                        /\ r.error[1] = IF e.isError THEN e.message
                                        ELSE << "Unknown execution error" >>
                        /\ r.executionTimeMs = now - exec[p].startTime]_vars

\* C24's case: a runCode that rejected with a value that is no Error, after
\* the clock had moved, has become a result.
C24_Witness ==
    \E p \in ExecCalls :
        /\ exec[p].pc = "done"
        /\ exec[p].raised = NULL
        /\ exec[p].result # NULL
        /\ exec[p].result[1].stdout = << >>
        /\ exec[p].result[1].images = << >>
        /\ exec[p].result[1].error = Some(<< "Unknown execution error" >>)
        /\ exec[p].result[1].executionTimeMs >= 1

\* The step ends p's executeCode with a result whose error is not null.
EndsWithError(p) ==
    /\ exec[p].pc \in {"creating", "running"}
    /\ exec'[p].pc = "done"
    /\ exec'[p].result # NULL
    /\ exec'[p].result[1].error # NULL

\* runCode resolves for p to an execution that reports an interpreter error.
InterpreterError(p) ==
    \E x \in Executions : x.error # NULL /\ RunCodeOk(p, x)

\* C25, as claimed: the result's error is not null only when the execution
\* reported an interpreter error.
C25_ErrorOnlyFromInterpreter ==
    [][\A p \in ExecCalls : EndsWithError(p) => InterpreterError(p)]_vars

\* C25, amended: the result's error is null exactly when runCode resolved
\* to an execution without an interpreter error; it is not null when the
\* execution reported an interpreter error, when Sandbox.create failed and
\* when runCode rejected.
C25_ErrorCases ==
    [][\A p \in ExecCalls :
          /\ EndsWithError(p)
                => \/ InterpreterError(p)
                   \/ \E e \in Thrown : CreateFail(p, e)
                   \/ \E e \in Thrown : RunCodeFail(p, e)
          /\ \A x \in Executions :
                RunCodeOk(p, x)
                    => (exec'[p].result[1].error = NULL <=> x.error = NULL)
          /\ \A e \in Thrown :
                (CreateFail(p, e) \/ RunCodeFail(p, e))
                    => exec'[p].result[1].error # NULL]_vars

\* C25's case: an execution that reported an interpreter error has returned
\* a result whose error starts with the error's name.
C25_Witness ==
    \E p \in ExecCalls :
        /\ exec[p].pc = "done"
        /\ exec[p].result # NULL
        /\ exec[p].result[1].error # NULL
        /\ Head(exec[p].result[1].error[1]) = "ValueError"
        /\ exec[p].result[1].images = << >>

\* C26: images holds one element for every result that carries a png or a
\* jpeg payload, in the order of the results: the png payload with format
\* png whenever the result carries one, otherwise the jpeg payload with
\* format jpeg; a result with neither contributes nothing.
C26_ImageExtraction ==
    [][\A p \in ExecCalls, x \in FormatExecutions :
          RunCodeOk(p, x)
              => LET images == exec'[p].result[1].images
                     carriers == SelectSeq(x.results,
                                     LAMBDA r : r.png # "" \/ r.jpeg # "")
                 IN  /\ Len(images) = Len(carriers)
                     /\ \A i \in 1..Len(carriers) :
                           images[i] =
                              IF carriers[i].png # ""
                              THEN [format |-> "png", base64 |-> carriers[i].png]
                              ELSE [format |-> "jpeg", base64 |-> carriers[i].jpeg]]_vars

\* C26's case: of three results the first carried a png payload, the second
\* a jpeg payload and the third both, and the result holds a png, a jpeg and
\* a png image in that order.
C26_Witness ==
    \E p \in ExecCalls :
        /\ exec[p].pc = "done"
        /\ exec[p].result # NULL
        /\ exec[p].result[1].images =
              << [format |-> "png", base64 |-> "P"],
                 [format |-> "jpeg", base64 |-> "J"],
                 [format |-> "png", base64 |-> "Q"] >>

RECURSIVE SplitLines(_)
\* The lines of a text: the parts between its line breaks.
SplitLines(t) ==
    IF \E i \in 1..Len(t) : t[i] = NL
    THEN LET i == CHOOSE j \in 1..Len(t) :
                      t[j] = NL /\ \A k \in 1..(j - 1) : t[k] # NL
         IN  << SubSeq(t, 1, i - 1) >> \o SplitLines(SubSeq(t, i + 1, Len(t)))
    ELSE << t >>

\* C27: the formatted interpreter error has one line for each of name,
\* value and traceback that is present, in that order, and no other line;
\* with none present it is empty.
C27_ErrorFormat ==
    [][\A p \in ExecCalls, x \in FormatExecutions :
          (RunCodeOk(p, x) /\ x.error # NULL)
              => LET error == x.error[1]
                     present == SelectSeq(<< error.name, error.value,
                                             error.traceback >>,
                                          LAMBDA f : f # << >>)
                     formatted == exec'[p].result[1].error[1]
                 IN  /\ exec'[p].result[1].error # NULL
                     /\ IF Len(present) = 0 THEN formatted = << >>
                        ELSE SplitLines(formatted) = present]_vars

\* C27's case: an interpreter error with a name and a traceback but no
\* value has been formatted as two lines.
C27_Witness ==
    \E p \in ExecCalls :
        /\ exec[p].pc = "done"
        /\ exec[p].result # NULL
        /\ exec[p].result[1].error = Some(<< "ValueError", NL, "line 3" >>)

\* C28: the result's stdout is the standard-output text followed by the
\* standard-error text, and the last line of the one and the first line of
\* the other stay separate lines: when no line written is empty, the lines
\* of stdout are the lines of standard output followed by those of standard
\* error.
C28_StdoutThenStderr ==
    [][\A p \in ExecCalls, x \in FormatExecutions :
          ( /\ RunCodeOk(p, x)
            /\ Len(x.logs.stdout) + Len(x.logs.stderr) > 0
            /\ \A i \in 1..Len(x.logs.stdout) : x.logs.stdout[i] # << >>
            /\ \A i \in 1..Len(x.logs.stderr) : x.logs.stderr[i] # << >> )
          => SplitLines(exec'[p].result[1].stdout)
                = x.logs.stdout \o x.logs.stderr]_vars

C30_SweepSparesFreshEntry ==
    [][(sweep' # sweep /\ sweep'.pc = "killing")
          => PastLimits(CacheGet(sandboxCache', sweep'.sid), now)]_vars

\* C31: terminateSandbox removes only the entry whose sandbox it released.
\* When the kill it awaited settles while the store holds, for its session
\* id, an entry around another sandbox (set by a call since the kill was
\* invoked), that entry is still in the store afterwards.
C31_TerminateSparesNewEntry ==
    [][\A t \in TermCalls :
          LET s == term[t].sid
          IN  ( /\ KillSettles(t)
                /\ CacheHas(sandboxCache, s)
                /\ CacheGet(sandboxCache, s).sandbox # term[t].sandbox )
              => /\ CacheHas(sandboxCache', s)
                 /\ CacheGet(sandboxCache', s) = CacheGet(sandboxCache, s)]_vars

\* No executeCode, terminateSandbox or sweep is in flight.
Quiescent ==
    /\ \A p \in ExecCalls : exec[p].pc \in {"idle", "done"}
    /\ \A t \in TermCalls : term[t].pc \in {"idle", "done"}
    /\ sweep.pc = "idle"

\* C32: no sandbox leaks.  With nothing in flight, every sandbox the
\* provider created and on which kill was never invoked is the sandbox of
\* an entry of the store (so, the store holding one entry per session id,
\* there is at most one unreleased sandbox per session id).
C32_NoLeak ==
    Quiescent
        => \A sb \in 1..(nextSandbox - 1) :
              killCalls[sb] = 0 => sb \in CachedSandboxes(sandboxCache)

\* C33: expiry is permanent for an entry.  An entry the policy rejects is,
\* as long as it stays in the store (its session id around the same
\* sandbox), rejected in the next state too, with the lastUsedAt and
\* executionCount it had; and no executeCode call starts runCode on its
\* sandbox: a call that starts runCode does so on a sandbox just created or
\* on the sandbox of an entry the policy accepts.
C33_ExpiryPermanent ==
    [][/\ \A i \in 1..Len(sandboxCache), j \in 1..Len(sandboxCache') :
             ( /\ ~isSessionValid(sandboxCache[i], now)
               /\ sandboxCache'[j].key = sandboxCache[i].key
               /\ sandboxCache'[j].sandbox = sandboxCache[i].sandbox )
             => /\ ~isSessionValid(sandboxCache'[j], now')
                /\ sandboxCache'[j].lastUsedAt = sandboxCache[i].lastUsedAt
                /\ sandboxCache'[j].executionCount = sandboxCache[i].executionCount
       /\ \A p \in ExecCalls :
             (exec[p].pc # "running" /\ exec'[p].pc = "running")
                => \A i \in 1..Len(sandboxCache) :
                      ~isSessionValid(sandboxCache[i], now)
                          => exec'[p].sandbox # sandboxCache[i].sandbox]_vars

\* C33's case: an entry used twice, which the policy rejected already one
\* clock step ago, is still in the store, and a call for its session id,
\* made now, is waiting for a new sandbox.
C33_Witness ==
    \E p \in ExecCalls :
        /\ exec[p].pc = "creating"
        /\ exec[p].startTime = now
        /\ CacheHas(sandboxCache, exec[p].sid)
        /\ LET e == CacheGet(sandboxCache, exec[p].sid)
           IN  /\ ~isSessionValid(e, now - 1)
               /\ e.executionCount = 2

\* The store holds for session id s an entry the policy rejects.
HoldsExpired(s) ==
    CacheHas(sandboxCache, s) /\ ~isSessionValid(CacheGet(sandboxCache, s), now)

\* C34: with the timer firing and every kill settling, an entry the policy
\* rejects does not stay in the store: eventually the store holds no
\* rejected entry for its session id (a sweep has removed it, unless a new
\* entry replaced it first), or the cleanup job has been stopped.
C34_ExpiredEventuallyRemoved ==
    \A s \in Sessions :
        HoldsExpired(s) ~> (~HoldsExpired(s) \/ ~cleanupInterval)

\* C34's case: with the cleanup job running, the sweep has killed the two
\* sandboxes ever created, after their entries expired, and the store is
\* empty.
C34_Witness ==
    /\ cleanupInterval
    /\ sweep.pc = "idle"
    /\ now > SESSION_IDLE_TIMEOUT
    /\ nextSandbox = 3
    /\ killCalls[1] = 1
    /\ killCalls[2] = 1
    /\ sandboxCache = << >>

\* terminateSandbox t has completed for an entry it found (its caller has
\* not made its next call yet).
Terminated(t) == term[t].pc = "done" /\ term[t].sandbox # NoSandbox

RunFailed(q) ==
    /\ exec[q].pc = "done"
    /\ exec[q].result # NULL
    /\ exec[q].result[1].error = Some(ErrorThrown.message)

\* C36: a runCode that throws leaves the store as it is, and neither
\* creates nor kills a sandbox: the session's entry stays, around the same
\* sandbox.  The executeCode call that follows such a failure and finds the
\* entry within the expiry bounds runs on the entry's sandbox, and no
\* sandbox is created.
C36_RunFailureKeepsEntry ==
    [][\A p \in ExecCalls :
          /\ (RunCodeSettles(p) /\ exec'[p].result[1].error # NULL)
                => /\ sandboxCache' = sandboxCache
                   /\ nextSandbox' = nextSandbox
                   /\ killCalls' = killCalls
          /\ LET s == exec'[p].sid
             IN  ( /\ Starts(p)
                   /\ \E q \in ExecCalls \ {p} : RunFailed(q)
                   /\ CacheHas(sandboxCache, s)
                   /\ ~PastLimits(CacheGet(sandboxCache, s), now) )
                 => /\ exec'[p].pc = "running"
                    /\ exec'[p].sandbox = CacheGet(sandboxCache, s).sandbox
                    /\ CacheGet(sandboxCache', s).sandbox = exec'[p].sandbox
                    /\ nextSandbox' = nextSandbox]_vars

\* C36's case: a call's runCode threw at once on the only sandbox ever
\* created; a clock step later another call has reused the entry and runs
\* on that sandbox.
C36_Witness ==
    \E p, q \in ExecCalls :
        /\ RunFailed(q)
        /\ exec[q].result[1].executionTimeMs = 0
        /\ exec[p].pc = "running"
        /\ exec[p].startTime = 1
        /\ now = 1
        /\ exec[p].sandbox = 1
        /\ nextSandbox = 2
        /\ \A sb \in SandboxIds : killCalls[sb] = 0
        /\ sandboxCache = << Reused(NewEntry("a", 1, 0), 1) >>

\* The entries of the session ids other than s.
OtherEntries(cache, s) == SelectSeq(cache, LAMBDA e : e.key # s)

\* The session id of the executeCode call that takes a step (a call whose
\* caller only takes the result acts for no session id).
ExecSession(p) == IF exec[p].pc = "idle" THEN exec'[p].sid ELSE exec[p].sid

\* The session id of the terminateSandbox call that takes a step.
TermSession(t) == IF term[t].pc = "idle" THEN term'[t].sid ELSE term[t].sid

\* The step leaves the other session ids alone: their entries are as they
\* were, and no kill is invoked on a sandbox cached under one of them.
LeavesOthersAlone(s) ==
    /\ OtherEntries(sandboxCache', s) = OtherEntries(sandboxCache, s)
    /\ \A sb \in CachedSandboxes(OtherEntries(sandboxCache, s)) :
          killCalls'[sb] = killCalls[sb]

\* C37: sessions are isolated.  A step of an executeCode or terminateSandbox
\* call for one session id leaves the entries of the other session ids as
\* they were and invokes no kill on their sandboxes, and a call never starts
\* runCode on a sandbox cached under another session id.
C37_SessionsIsolated ==
    [][/\ \A p \in ExecCalls :
             exec'[p] # exec[p]
                 => /\ LeavesOthersAlone(ExecSession(p))
                    /\ exec'[p].pc = "running"
                          => exec'[p].sandbox \notin
                                CachedSandboxes(OtherEntries(sandboxCache',
                                                             ExecSession(p)))
       /\ \A t \in TermCalls :
             term'[t] # term[t] => LeavesOthersAlone(TermSession(t))]_vars

\* C37's case: while an execution of session b runs on the second sandbox,
\* terminateSandbox has completed for session a: it killed the first
\* sandbox, and b's entry is as the execution's creation left it.
C37_Witness ==
    \E t \in TermCalls, p \in ExecCalls :
        /\ Terminated(t)
        /\ term[t].sid = "a"
        /\ term[t].sandbox = 1
        /\ killCalls[1] = 1
        /\ killCalls[2] = 0
        /\ exec[p].pc = "running"
        /\ exec[p].sid = "b"
        /\ exec[p].sandbox = 2
        /\ sandboxCache = << NewEntry("b", 2, exec[p].startTime) >>

\* The request's last message has role user, it is the conversation's only
\* user message, and the app is not in development mode.
CountsTowardsLimit(r) ==
    /\ Len(r.messages) > 0
    /\ r.messages[Len(r.messages)] = "user"
    /\ \A i \in 1..(Len(r.messages) - 1) : r.messages[i] # "user"
    /\ ~r.isDevelopment

\* The step calls a rate-limit check (the user's or the anonymous one).
RateLimitCheckCalled ==
    \/ rateLimit'.checkUser # rateLimit.checkUser
    \/ rateLimit'.checkAnonymous # rateLimit.checkAnonymous

\* The step calls incrementRateLimit.
RateLimitIncrementCalled == rateLimit'.increment # rateLimit.increment

\* The response the step gives has one of the statuses S.
RespondsWith(S) ==
    request' # NULL /\ request' # request /\ request'[1].status \in S

\* C38: the chat handler calls a rate-limit check, and incrementRateLimit,
\* only for a request whose last message has role user, whose conversation
\* has exactly one user message, outside development mode; it increments
\* only after this request's check answered allowed, and the request then
\* gets the stream's response; a request answered 402 or 429 is answered
\* without an increment and has not started streaming.
C38_RateLimitOnlyForFirstUserMessage ==
    [][/\ RateLimitCheckCalled
             => request # NULL /\ CountsTowardsLimit(request[1])
       /\ RateLimitIncrementCalled
             => /\ request # NULL
                /\ CountsTowardsLimit(request[1])
                /\ request[1].allowed = Some(TRUE)
                /\ RespondsWith({200})
       /\ RespondsWith({402, 429})
             => /\ ~RateLimitIncrementCalled
                /\ ~request'[1].streaming]_vars

\* C38's case: the first user message of an authenticated user outside
\* development mode was checked, allowed, streamed and counted once.
C38_Witness ==
    /\ request =
          Some(Responded([NewRequest(<< "user" >>, FALSE, Some("u")) EXCEPT
                              !.allowed = Some(TRUE), !.streaming = TRUE], 200))
    /\ rateLimit = [checkUser |-> 1, checkAnonymous |-> 0, increment |-> 1]

====
